---- MODULE Spec2Model ----
(***************************************************************************)
(* Production scheduling: order admission (DynamicOrderRelease), the exact *)
(* scheduler (SchedulingModel, a 0/1 program handed to CBC), the genetic   *)
(* algorithm (GeneticAlgorithmScheduler), the incremental inserter         *)
(* (IncrementalScheduler) and the planning cycle of main().                *)
(*                                                                         *)
(* Throughputs are integers here (units per hour), so that                 *)
(* int(quantity / production_rate) is quantity \div production_rate.       *)
(* Times are hours since the cycle's t = 0.                                *)
(***************************************************************************)
EXTENDS Integers, Sequences, FiniteSets, TLC

(***************************************************************************)
(* Bounds of the model.  The source fixes both TIME_HORIZON attributes at  *)
(* 24 * 30 = 720 hours, 50 individuals and 100 generations; the model      *)
(* keeps the code and shrinks these numbers.                               *)
(***************************************************************************)
\* SchedulingModel.TIME_HORIZON (scheduling.py:20), scaled down.
TIME_HORIZON == 21
\* GeneticAlgorithmScheduler.TIME_HORIZON (scheduling.py:198), scaled down.
GA_TIME_HORIZON == 2
\* GeneticAlgorithmScheduler.population_size (scheduling.py:194), scaled down.
population_size == 2
\* GeneticAlgorithmScheduler.generations (scheduling.py:195), scaled down.
generations == 1
\* Longest order list the adapter delivers.
MaxOrders == 2

(***************************************************************************)
(* Program constants.                                                      *)
(***************************************************************************)
\* range(max(0, time - 10), time + 10) in _add_equipment_constraints.
EquipmentWindow == 10
\* CRITICAL_EQUIPMENT_THRESHOLD = 0.8, in tenths.
CRITICAL_EQUIPMENT_THRESHOLD_TENTHS == 8
\* 24 * 30 in can_release_order.
RELEASE_HORIZON == 720
\* range(start_time, start_time + 24 * 7) in _find_available_time.
LOOKAHEAD == 168
\* min(5, len(fitness_scores)) in evolve.
TournamentSize == 5
\* random.randint(0, 2) in mutate.
MaxJitter == 2

VARIABLES
  equipment,        \* List[Equipment]: the machines, read only
  order_data,       \* the adapter's order list, in input order
  orders,           \* main's orders list (sorted in place by priority)
  boms,             \* Dict[product_id, BOM]
  inventory,        \* Inventory.raw_materials of the snapshot
  rel_inventory,    \* order_releaser.inventory (the projected copy)
  rel_load,         \* order_releaser.equipment_load
  pc,               \* position in the program
  idx,              \* index of the order the admission loop is at
  can_release,      \* result of the last "bom and can_release_order(...)"
  release_orders,   \* main's release_orders
  variables,        \* SchedulingModel.variables: the names of the 0/1 variables
  status,           \* pulp.LpStatus of the last solve ("" before)
  solution,         \* SchedulingModel.solution
  batch_schedule,   \* main's batch_schedule: the cycle's plan
  heap,             \* the order_schedule dicts the GA allocates, by address
  population,       \* GA population: individuals are lists of addresses
  fitness_scores,   \* evolve's fitness_scores: (fitness, individual), ranked
  new_population,   \* evolve's new_population
  gen,              \* solve's generation counter
  best_fitness,     \* solve's best_fitness
  best_individual,  \* solve's best_individual
  call,             \* the DynamicOrderRelease method a client called last
  new_order,        \* the order handed to add_new_order
  merged_schedule,  \* the plan add_new_order returned
  replay            \* the draws of the random module, as a client that
                    \* runs the GA twice on one stream of draws sees them

vars == <<equipment, order_data, orders, boms, inventory, rel_inventory, rel_load,
          pc, idx, can_release, release_orders, variables, status, solution,
          batch_schedule, heap, population, fitness_scores, new_population, gen,
          best_fitness, best_individual, call, new_order, merged_schedule,
          replay>>

inputs == <<equipment, order_data, boms, inventory>>
releaserVars == <<rel_inventory, rel_load>>
exactVars == <<variables, status, solution>>
gaVars == <<heap, population, fitness_scores, new_population, gen, best_fitness,
            best_individual>>
incVars == <<call, new_order, merged_schedule, replay>>

\* replay.tape: the draws made so far, one entry per call that draws;
\* replay.pos: 0 while the draws are fresh, else the entry the next call
\* reads; replay.plan: the plan of the run that made the draws.
NoReplay == [tape |-> <<>>, pos |-> 0, plan |-> <<>>]

(***************************************************************************)
(* Helpers.                                                                *)
(***************************************************************************)
Max(a, b) == IF a >= b THEN a ELSE b
Min(a, b) == IF a <= b THEN a ELSE b

\* dict.get(key, default)
Get(d, key, default) == IF key \in DOMAIN d THEN d[key] ELSE default

Range(s) == {s[i] : i \in DOMAIN s}

RECURSIVE SeqMax(_)
SeqMax(s) == IF Len(s) = 1 THEN Head(s) ELSE Max(Head(s), SeqMax(Tail(s)))

(***************************************************************************)
(* data_model.py                                                           *)
(***************************************************************************)
\* Inventory.check_availability
check_availability(raw_materials, material_id, quantity) ==
  Get(raw_materials, material_id, 0) >= quantity

(***************************************************************************)
(* The adapter's snapshots the model runs on.                              *)
(***************************************************************************)
E1 == [id |-> "E1", process_type |-> "A", production_rate |-> 1]
E2 == [id |-> "E2", process_type |-> "A", production_rate |-> 2]
E3 == [id |-> "E3", process_type |-> "B", production_rate |-> 2]

EquipmentChoices == { <<E1>>, <<E1, E3>>, <<E1, E2>> }

BomData ==
  ("P1" :> [product_id |-> "P1", components |-> ("M1" :> 2),
            process_sequence |-> <<"A">>])
  @@ ("P2" :> [product_id |-> "P2", components |-> ("M1" :> 1) @@ ("M2" :> 1),
               process_sequence |-> <<"A", "B">>])
  @@ ("P3" :> [product_id |-> "P3", components |-> ("M2" :> 1),
               process_sequence |-> <<"A", "B", "A">>])

\* The orders the adapter may deliver: (product, quantity, priority).
\* "P4" has no BOM.
OrderKinds ==
  { <<"P1", 2, 1>>, <<"P1", 21, 2>>, <<"P2", 3, 1>>, <<"P3", 2, 1>>,
    <<"P4", 2, 2>> }
DeliveryDate == 500000

InventoryChoices ==
  { ("M1" :> 100) @@ ("M2" :> 3),
    ("M1" :> 8) @@ ("M2" :> 3),
    ("M1" :> 50) }

OrderId(i) == "O" \o ToString(i)

MkOrder(i, kind) ==
  [id |-> OrderId(i), product_id |-> kind[1], quantity |-> kind[2],
   delivery_date |-> DeliveryDate, priority |-> kind[3]]

\* Order lists of 1..MaxOrders orders; the i-th order is called O<i>.
OrderLists ==
  UNION { { [i \in 1..n |-> MkOrder(i, f[i])] : f \in [1..n -> OrderKinds] } :
          n \in 1..MaxOrders }

(***************************************************************************)
(* dynamic_scheduler.py: DynamicOrderRelease                               *)
(***************************************************************************)
\* Seeded fault: can_release_order with "utilization >= threshold".
can_release_order_at_threshold(order, bom, inv, load) ==
  IF \E m \in DOMAIN bom.components :
       Get(inv, m, 0) < bom.components[m] * order.quantity
  THEN FALSE
  ELSE IF \E i \in DOMAIN equipment :
            /\ equipment[i].process_type \in Range(bom.process_sequence)
            /\ Get(load, equipment[i].id, 0) * 10
                 >= CRITICAL_EQUIPMENT_THRESHOLD_TENTHS * RELEASE_HORIZON
       THEN FALSE
       ELSE TRUE

\* Seeded fault: can_release_order that compares the stock with the need of
\* one unit.
can_release_order_per_unit(order, bom, inv, load) ==
  IF \E m \in DOMAIN bom.components : Get(inv, m, 0) < bom.components[m]
  THEN FALSE
  ELSE IF \E i \in DOMAIN equipment :
            /\ equipment[i].process_type \in Range(bom.process_sequence)
            /\ Get(load, equipment[i].id, 0) * 10
                 > CRITICAL_EQUIPMENT_THRESHOLD_TENTHS * RELEASE_HORIZON
       THEN FALSE
       ELSE TRUE

\* can_release_order: the material loop, then the load loop, each with its
\* early return.  utilization = load / 720 > 0.8 is load * 10 > 8 * 720.
can_release_order(order, bom, inv, load) ==
  IF \E m \in DOMAIN bom.components :
       Get(inv, m, 0) < bom.components[m] * order.quantity
  THEN FALSE
  ELSE IF \E i \in DOMAIN equipment :
            /\ equipment[i].process_type \in Range(bom.process_sequence)
            /\ Get(load, equipment[i].id, 0) * 10
                 > CRITICAL_EQUIPMENT_THRESHOLD_TENTHS * RELEASE_HORIZON
       THEN FALSE
       ELSE TRUE

\* Seeded fault: update_inventory that subtracts the need of one unit.
update_inventory_per_unit(order, bom, inv) ==
  [m \in DOMAIN inv |->
     IF m \in DOMAIN bom.components THEN inv[m] - bom.components[m] ELSE inv[m]]

\* update_inventory: subtracts the order's need of every material the
\* projection knows; the result may be negative (a warning is printed).
update_inventory(order, bom, inv) ==
  [m \in DOMAIN inv |->
     IF m \in DOMAIN bom.components
     THEN inv[m] - bom.components[m] * order.quantity
     ELSE inv[m]]

\* update_equipment_load: reset, then add end - start per known machine.
RECURSIVE ProcessLoad(_, _)
ProcessLoad(processes, eqid) ==
  IF processes = <<>> THEN 0
  ELSE (IF Head(processes).equipment_id = eqid
        THEN Head(processes).end_time - Head(processes).start_time ELSE 0)
       + ProcessLoad(Tail(processes), eqid)

RECURSIVE ScheduleLoad(_, _)
ScheduleLoad(schedule, eqid) ==
  IF schedule = <<>> THEN 0
  ELSE ProcessLoad(Head(schedule).processes, eqid)
       + ScheduleLoad(Tail(schedule), eqid)

\* Seeded fault: update_equipment_load without the reset.
update_equipment_load_accumulating(schedule) ==
  [eqid \in {equipment[i].id : i \in DOMAIN equipment} |->
     rel_load[eqid] + ScheduleLoad(schedule, eqid)]

update_equipment_load(schedule) ==
  [eqid \in {equipment[i].id : i \in DOMAIN equipment} |->
     ScheduleLoad(schedule, eqid)]

(***************************************************************************)
(* main.py: the planning cycle, steps 3 to 5.1                             *)
(***************************************************************************)
\* Seeded fault: no sort.
NoSort(s) == s

\* orders.sort(key=lambda o: o.priority): a stable sort.
RECURSIVE InsertByPriority(_, _)
InsertByPriority(o, s) ==
  IF s = <<>> THEN <<o>>
  ELSE IF Head(s).priority < o.priority
       THEN <<Head(s)>> \o InsertByPriority(o, Tail(s))
       ELSE <<o>> \o s

RECURSIVE SortByPriority(_)
SortByPriority(s) ==
  IF s = <<>> THEN <<>>
  ELSE InsertByPriority(Head(s), SortByPriority(Tail(s)))

EmptyLoad == [eqid \in {equipment[i].id : i \in DOMAIN equipment} |-> 0]

\* main, lines 42-61: snapshots, DynamicOrderRelease(...), orders.sort.
SortOrders ==
  /\ pc = "sort"
  /\ orders' = SortByPriority(orders)
  /\ idx' = 1
  /\ pc' = "admit"
  /\ UNCHANGED <<inputs, releaserVars, can_release, release_orders, exactVars,
                 batch_schedule, gaVars, incVars>>

\* main, lines 73-74: bom = boms.get(...); bom and can_release_order(order, bom)
CheckRelease ==
  /\ pc = "admit"
  /\ idx <= Len(orders)
  /\ can_release' =
       IF orders[idx].product_id \in DOMAIN boms
       THEN can_release_order(orders[idx], boms[orders[idx].product_id],
                              rel_inventory, rel_load)
       ELSE FALSE
  /\ pc' = "checked"
  /\ UNCHANGED <<inputs, orders, releaserVars, idx, release_orders, exactVars,
                 batch_schedule, gaVars, incVars>>

\* Seeded fault: the releaser is constructed on the snapshot's own dict (no
\* .copy()), so that update_inventory writes into the snapshot.
ReleaseOrderOnSnapshot ==
  /\ pc = "checked"
  /\ can_release
  /\ release_orders' = Append(release_orders, orders[idx])
  /\ rel_inventory' =
       update_inventory(orders[idx], boms[orders[idx].product_id], rel_inventory)
  /\ inventory' = rel_inventory'
  /\ idx' = idx + 1
  /\ pc' = "admit"
  /\ UNCHANGED <<equipment, order_data, boms, orders, rel_load, can_release,
                 exactVars, batch_schedule, gaVars, incVars>>

\* main, lines 75-77: release_orders.append(order); update_inventory(order, bom)
ReleaseOrder ==
  /\ pc = "checked"
  /\ can_release
  /\ release_orders' = Append(release_orders, orders[idx])
  /\ rel_inventory' =
       update_inventory(orders[idx], boms[orders[idx].product_id], rel_inventory)
  /\ idx' = idx + 1
  /\ pc' = "admit"
  /\ UNCHANGED <<inputs, orders, rel_load, can_release, exactVars,
                 batch_schedule, gaVars, incVars>>

\* main, lines 78-79: the order stays for a later batch.
DeferOrder ==
  /\ pc = "checked"
  /\ ~can_release
  /\ idx' = idx + 1
  /\ pc' = "admit"
  /\ UNCHANGED <<inputs, orders, releaserVars, can_release, release_orders,
                 exactVars, batch_schedule, gaVars, incVars>>

\* main, lines 81-85: no released order ends the batch; otherwise the
\* exact scheduler is constructed on the released orders.
EndAdmission ==
  /\ pc = "admit"
  /\ idx > Len(orders)
  /\ pc' = IF release_orders = <<>> THEN "done" ELSE "build"
  /\ UNCHANGED <<inputs, orders, releaserVars, idx, can_release, release_orders,
                 exactVars, batch_schedule, gaVars, incVars>>

(***************************************************************************)
(* scheduling.py: SchedulingModel.  self.orders is release_orders,         *)
(* self.inventory is the snapshot.  A 0/1 variable x_<order>_<machine>_<t> *)
(* is the triple <<order id, machine id, t>>; a candidate solution is the  *)
(* set X of the variables whose value is 1.                                *)
(***************************************************************************)
EquipmentById(eqid) == CHOOSE e \in Range(equipment) : e.id = eqid
OrderById(os, oid) == CHOOSE o \in Range(os) : o.id = oid

\* [eq for eq in self.equipment if eq.process_type == process]
valid_equipment(process) ==
  LET Qualified(eq) == eq.process_type = process
  IN  SelectSeq(equipment, Qualified)

\* _get_processing_time: max(1, int(order.quantity / equipment.production_rate))
GetProcessingTime(order, eq) ==
  Max(1, order.quantity \div eq.production_rate)

\* build_model, lines 25-32: the keys of self.variables, for self.orders = os.
BuildVariables(os) ==
  UNION { { <<os[i].id, equipment[j].id, time>> :
              j \in { k \in DOMAIN equipment :
                        equipment[k].process_type
                          \in Range(boms[os[i].product_id].process_sequence) },
              time \in 0..(TIME_HORIZON - 1) } :
          i \in DOMAIN os }

\* build_model, lines 35-41: the objective value of X.
RECURSIVE Objective(_, _)
Objective(X, os) ==
  IF X = {} THEN 0
  ELSE LET v == CHOOSE w \in X : TRUE
       IN  v[3] + GetProcessingTime(OrderById(os, v[1]), EquipmentById(v[2]))
           + Objective(X \ {v}, os)

\* _add_process_constraints: for every order and every entry of its process
\* sequence, the variables of the qualified machines sum to 1.
ProcessConstraints(X, os) ==
  \A i \in DOMAIN os :
    LET order == os[i]
        seq == boms[order.product_id].process_sequence
    IN  \A k \in DOMAIN seq :
          Cardinality({ v \in X : /\ v[1] = order.id
                                  /\ EquipmentById(v[2]).process_type = seq[k] }) = 1

\* _add_equipment_constraints: for every machine and every hour, the
\* variables of the machine that start in [max(0, time-10), time+10) sum to
\* at most 1.  EquipmentConstraintsAt states the constraints of one machine
\* for the hours in times.
EquipmentConstraintsAt(X, eqid, times) ==
  \A time \in times :
    Cardinality({ v \in X : /\ v[2] = eqid
                            /\ v[3] >= Max(0, time - EquipmentWindow)
                            /\ v[3] < time + EquipmentWindow }) <= 1

EquipmentConstraints(X) ==
  \A e \in Range(equipment) :
    EquipmentConstraintsAt(X, e.id, 0..(TIME_HORIZON - 1))

\* _add_sequence_constraints: for consecutive entries i, i+1 of an order's
\* sequence, machines c_eq, n_eq and hours t2 < t1 + p(order, c_eq):
\* x[order, c_eq, t1] + x[order, n_eq, t2] <= 1 (2 * x <= 1 when both are
\* the same variable).
SequenceConstraints(X, os) ==
  \A i \in DOMAIN os :
    LET order == os[i]
        seq == boms[order.product_id].process_sequence
    IN  \A k \in 1..(Len(seq) - 1) :
          \A v1, v2 \in X :
            ~ ( /\ v1[1] = order.id
                /\ v2[1] = order.id
                /\ EquipmentById(v1[2]).process_type = seq[k]
                /\ EquipmentById(v2[2]).process_type = seq[k + 1]
                /\ v2[3] < v1[3] + GetProcessingTime(order, EquipmentById(v1[2])) )

\* all(self.inventory.check_availability(material, qty * order.quantity) ...)
MaterialsAvailable(order) ==
  \A m \in DOMAIN boms[order.product_id].components :
    check_availability(inventory, m,
                       boms[order.product_id].components[m] * order.quantity)

\* _add_material_constraints: every variable of an order that lacks a
\* material is fixed to 0.
MaterialConstraints(X, os) ==
  \A i \in DOMAIN os :
    LET order == os[i]
    IN  ~MaterialsAvailable(order) =>
          \A v \in X : ~ ( /\ v[1] = order.id
                           /\ EquipmentById(v[2]).process_type
                                \in Range(boms[order.product_id].process_sequence) )

\* The (order, process type) pairs that have a process constraint, orders in
\* list order.
RECURSIVE DistinctTypes(_)
DistinctTypes(seq) ==
  IF seq = <<>> THEN <<>>
  ELSE LET rest == DistinctTypes(SubSeq(seq, 1, Len(seq) - 1))
       IN  IF seq[Len(seq)] \in Range(rest) THEN rest
           ELSE Append(rest, seq[Len(seq)])

RECURSIVE Slots(_, _)
Slots(os, n) ==
  IF n = 0 THEN <<>>
  ELSE LET order == os[n]
           types == DistinctTypes(boms[order.product_id].process_sequence)
       IN  Slots(os, n - 1) \o [k \in DOMAIN types |-> <<order.id, types[k]>>]

SlotVariables(vs, slot) ==
  { v \in vs : v[1] = slot[1] /\ EquipmentById(v[2]).process_type = slot[2] }

\* The search for the solutions, one process constraint after the other:
\* the sets X with one variable per constraint so far that break none of
\* the sequence constraints, of the = 0 constraints and of the machine
\* constraints of the hours around the variable added last (a superset of a
\* set that breaks a <= constraint breaks it too).
RECURSIVE PartialSolutions(_, _, _, _)
PartialSolutions(os, vs, slots, n) ==
  IF n = 0 THEN {{}}
  ELSE LET prev == PartialSolutions(os, vs, slots, n - 1)
           cands == { v \in SlotVariables(vs, slots[n]) : MaterialConstraints({v}, os) }
       IN  { pr[1] \cup {pr[2]} :
               pr \in { q \in prev \X cands :
                          LET X == q[1] \cup {q[2]}
                              near == { t \in 0..(TIME_HORIZON - 1) :
                                          /\ t >= q[2][3] - EquipmentWindow
                                          /\ t <= q[2][3] + EquipmentWindow }
                          IN  /\ EquipmentConstraintsAt(X, q[2][2], near)
                              /\ SequenceConstraints(X, os) } }

\* The solutions of the 0/1 program over the variables vs for the orders
\* os: every constraint holds.
FeasibleSolutions(os, vs) ==
  LET slots == Slots(os, Len(os))
  IN  { X \in PartialSolutions(os, vs, slots, Len(slots)) :
          /\ ProcessConstraints(X, os)
          /\ EquipmentConstraints(X)
          /\ SequenceConstraints(X, os)
          /\ MaterialConstraints(X, os) }

\* What CBC may report as Optimal: a feasible X of least objective value.
OptimalSolutions(F, os) ==
  LET values == { Objective(X, os) : X \in F }
      least == CHOOSE a \in values : \A b \in values : a <= b
  IN  { X \in F : Objective(X, os) = least }

\* Position of a variable in self.variables (a dict: insertion order, a key
\* assigned again keeps its place): by order, first entry of the process
\* type in the sequence, machine, hour.
IndexIn(seq, x) == CHOOSE k \in DOMAIN seq : seq[k] = x /\ \A j \in 1..(k - 1) : seq[j] # x

VariablePosition(v) ==
  LET oi == CHOOSE i \in DOMAIN release_orders : release_orders[i].id = v[1]
      seq == boms[release_orders[oi].product_id].process_sequence
      ei == CHOOSE j \in DOMAIN equipment : equipment[j].id = v[2]
  IN  <<oi, IndexIn(seq, equipment[ei].process_type), ei, v[3]>>

LexLess(a, b) ==
  \E k \in 1..4 : a[k] < b[k] /\ \A j \in 1..(k - 1) : a[j] = b[j]

\* _extract_solution: one record per variable of value 1, in the order of
\* self.variables.
RECURSIVE ExtractSolution(_)
ExtractSolution(X) ==
  IF X = {} THEN <<>>
  ELSE LET v == CHOOSE w \in X :
                  \A u \in X \ {w} : LexLess(VariablePosition(w), VariablePosition(u))
           order == OrderById(release_orders, v[1])
           eq == EquipmentById(v[2])
       IN  << [order_id |-> v[1], equipment_id |-> v[2],
               process_type |-> eq.process_type, start_time |-> v[3],
               end_time |-> v[3] + GetProcessingTime(order, eq)] >>
           \o ExtractSolution(X \ {v})

\* get_schedule (SchedulingModel): group the records by order, orders in
\* order of first appearance.
RECURSIVE OrderIdsOf(_)
OrderIdsOf(sol) ==
  IF sol = <<>> THEN <<>>
  ELSE LET rest == OrderIdsOf(SubSeq(sol, 1, Len(sol) - 1))
           oid == sol[Len(sol)].order_id
       IN  IF oid \in Range(rest) THEN rest ELSE Append(rest, oid)

ProcessOf(item) ==
  [process_type |-> item.process_type, equipment_id |-> item.equipment_id,
   start_time |-> item.start_time, end_time |-> item.end_time]

PlanEntry(order, processes) ==
  [order_id |-> order.id, product_id |-> order.product_id,
   quantity |-> order.quantity, delivery_date |-> order.delivery_date,
   processes |-> processes]

get_schedule(sol) ==
  LET ids == OrderIdsOf(sol)
  IN  [k \in DOMAIN ids |->
         LET Mine(item) == item.order_id = ids[k]
             items == SelectSeq(sol, Mine)
         IN  PlanEntry(OrderById(release_orders, ids[k]),
                       [j \in DOMAIN items |-> ProcessOf(items[j])])]

\* main, lines 90-91: SchedulingModel(release_orders, ...).build_model()
BuildModel ==
  /\ pc = "build"
  /\ variables' = BuildVariables(release_orders)
  /\ pc' = "solve"
  /\ UNCHANGED <<inputs, orders, releaserVars, idx, can_release, release_orders,
                 status, solution, batch_schedule, gaVars, incVars>>

\* solve(): CBC reports Optimal; _extract_solution.
SolveOptimal ==
  /\ pc = "solve"
  /\ LET F == FeasibleSolutions(release_orders, variables)
     IN  \E X \in OptimalSolutions(F, release_orders) :
           /\ status' = "Optimal"
           /\ solution' = ExtractSolution(X)
  /\ pc' = "schedule"
  /\ UNCHANGED <<inputs, orders, releaserVars, idx, can_release, release_orders,
                 variables, batch_schedule, gaVars, incVars>>

\* solve(): the program has no solution; solve returns False.
SolveInfeasible ==
  /\ pc = "solve"
  /\ FeasibleSolutions(release_orders, variables) = {}
  /\ status' = "Infeasible"
  /\ pc' = "ga"
  /\ UNCHANGED <<inputs, orders, releaserVars, idx, can_release, release_orders,
                 variables, solution, batch_schedule, gaVars, incVars>>

\* solve(): the 30 s time limit ends the search (or CBC fails); solve
\* returns False.
SolveNotSolved ==
  /\ pc = "solve"
  /\ status' = "Not Solved"
  /\ pc' = "ga"
  /\ UNCHANGED <<inputs, orders, releaserVars, idx, can_release, release_orders,
                 variables, solution, batch_schedule, gaVars, incVars>>

\* main, line 93: batch_schedule = scheduler.get_schedule()
GetSchedule ==
  /\ pc = "schedule"
  /\ batch_schedule' = IF solution = <<>> THEN <<>> ELSE get_schedule(solution)
  /\ pc' = "apply"
  /\ UNCHANGED <<inputs, orders, releaserVars, idx, can_release, release_orders,
                 exactVars, gaVars, incVars>>

\* main, line 106: order_releaser.update_equipment_load(batch_schedule)
ApplyPlan ==
  /\ pc = "apply"
  /\ rel_load' = update_equipment_load(batch_schedule)
  /\ pc' = "done"
  /\ UNCHANGED <<inputs, orders, rel_inventory, idx, can_release, release_orders,
                 exactVars, batch_schedule, gaVars, incVars>>

(***************************************************************************)
(* scheduling.py: GeneticAlgorithmScheduler.  self.orders is               *)
(* release_orders.  An individual is a list of references to order_schedule *)
(* dicts; heap[a] is the dict at address a, so that the in-place changes   *)
(* of mutate reach every individual that holds the dict.                   *)
(***************************************************************************)
\* create_individual, line 222.
GAProcessingTime(order, eq) ==
  Max(1, order.quantity \div eq.production_rate)

Process(ptype, eqid, start, end) ==
  [process_type |-> ptype, equipment_id |-> eqid, start_time |-> start,
   end_time |-> end]

\* create_individual, lines 210-234: the process lists one order can get
\* from entry k of its sequence on.  raised: random.randint(0, H - p) has an
\* empty range and raises ValueError.  draws: what the random module gave,
\* <<j, r>> for random.choice picking available_equipment[j] and
\* random.randint returning r (r = -1: randint raised).
RECURSIVE ProcessChains(_, _, _, _)
ProcessChains(order, seq, k, current_time) ==
  IF k > Len(seq) THEN { [raised |-> FALSE, processes |-> <<>>, draws |-> <<>>] }
  ELSE
    LET available_equipment == valid_equipment(seq[k])
    IN  IF available_equipment = <<>>
        THEN ProcessChains(order, seq, k + 1, current_time)
        ELSE UNION {
          LET selected_eq == available_equipment[j]
              processing_time == GAProcessingTime(order, selected_eq)
          IN  IF GA_TIME_HORIZON - processing_time < 0
              THEN { [raised |-> TRUE, processes |-> <<>>,
                      draws |-> << <<j, -1>> >>] }
              ELSE UNION {
                LET start_time == Max(current_time, r)
                    end_time == start_time + processing_time
                IN  { IF c.raised
                      THEN [c EXCEPT !.draws = << <<j, r>> >> \o @]
                      ELSE [raised |-> FALSE,
                            processes |-> <<Process(seq[k], selected_eq.id,
                                                    start_time, end_time)>>
                                          \o c.processes,
                            draws |-> << <<j, r>> >> \o c.draws] :
                      c \in ProcessChains(order, seq, k + 1, end_time) } :
                r \in 0..(GA_TIME_HORIZON - processing_time) } :
          j \in DOMAIN available_equipment }

\* create_individual: what a call can return for the first n orders, with
\* the draws it made (none after an exception).
RECURSIVE Individuals(_)
Individuals(n) ==
  IF n = 0 THEN { [raised |-> FALSE, schedules |-> <<>>, draws |-> <<>>] }
  ELSE
    LET order == release_orders[n]
        chains == ProcessChains(order, boms[order.product_id].process_sequence, 1, 0)
    IN  { IF pr[1].raised THEN pr[1]
          ELSE IF pr[2].raised
          THEN [raised |-> TRUE, schedules |-> <<>>,
                draws |-> pr[1].draws \o pr[2].draws]
          ELSE [raised |-> FALSE,
                schedules |-> Append(pr[1].schedules,
                                     [order_id |-> order.id,
                                      processes |-> pr[2].processes]),
                draws |-> pr[1].draws \o pr[2].draws] :
          pr \in Individuals(n - 1) \X chains }

\* fitness_function, as the fraction <<numerator, denominator>>.  With
\* C = total_completion_time, L = late_orders, d = max load - min load and
\* H = TIME_HORIZON: 1 + C/1000 + 500 L - 100 (1 - d / (H/2)) is
\* FitnessN / (1000 H).
RECURSIVE CompletionAndLate(_, _)
CompletionAndLate(h, ind) ==
  IF ind = <<>> THEN <<0, 0>>
  ELSE LET rest == CompletionAndLate(h, Tail(ind))
           os == h[Head(ind)]
       IN  IF \A o \in Range(release_orders) : o.id # os.order_id THEN rest
           ELSE IF os.processes = <<>> THEN rest
           ELSE LET completion_time ==
                      SeqMax([k \in DOMAIN os.processes |-> os.processes[k].end_time])
                    order == OrderById(release_orders, os.order_id)
                IN  << rest[1] + completion_time,
                       rest[2] + (IF completion_time > order.delivery_date THEN 1 ELSE 0) >>

GALoad(h, ind, eqid) ==
  ScheduleLoad([k \in DOMAIN ind |-> h[ind[k]]], eqid)

FitnessN(h, ind) ==
  LET cl == CompletionAndLate(h, ind)
      loads == { GALoad(h, ind, e.id) : e \in Range(equipment) }
      hi == CHOOSE a \in loads : \A b \in loads : a >= b
      lo == CHOOSE a \in loads : \A b \in loads : a <= b
  IN  1000 * GA_TIME_HORIZON + cl[1] * GA_TIME_HORIZON
      + 500000 * cl[2] * GA_TIME_HORIZON
      - 100000 * (GA_TIME_HORIZON - 2 * (hi - lo))

\* 1 / 0 raises ZeroDivisionError.
FitnessRaises(h, ind) == FitnessN(h, ind) = 0

\* max(0.0001, 1 / (...)) as a fraction of numerator 1000 H: the floor
\* 0.0001 is 1000 H / (10000000 H).
fitness_function(h, ind) ==
  LET n == FitnessN(h, ind)
  IN  IF n > 0 /\ n < 10000000 * GA_TIME_HORIZON
      THEN <<1000 * GA_TIME_HORIZON, n>>
      ELSE <<1000 * GA_TIME_HORIZON, 10000000 * GA_TIME_HORIZON>>

\* a > b for two fitness values: 0 (solve's first best_fitness, <<0, 1>>) or
\* fractions of the same numerator.
Greater(a, b) ==
  IF b[1] = 0 THEN a[1] > 0
  ELSE IF a[1] = 0 THEN FALSE
  ELSE a[2] < b[2]

\* crossover, for the draws it makes: crossover_point = 0 stands for the
\* calls that return parent1.copy() (random.random() > crossover_rate, or
\* one order only), else it is the value of random.randint(1, len - 1).
CrossoverDraws(parent1) == 0..(Len(parent1) - 1)

crossover_at(parent1, parent2, crossover_point) ==
  IF crossover_point = 0 THEN parent1
  ELSE SubSeq(parent1, 1, crossover_point)
         \o SubSeq(parent2, crossover_point + 1, Len(parent2))

\* crossover: what the call can return.
crossover(parent1, parent2) ==
  { crossover_at(parent1, parent2, crossover_point) :
    crossover_point \in CrossoverDraws(parent1) }

\* Seeded fault: mutate without the loop over the later processes.
PushDownstreamSkipped(processes, i, jitter) == processes

\* mutate, lines 327-335: the processes after process_index, one after the
\* other; jitter[i] is the random.randint(0, 2) drawn for process i.
RECURSIVE PushDownstream(_, _, _)
PushDownstream(processes, i, jitter) ==
  IF i > Len(processes) THEN processes
  ELSE LET start_time == Max(processes[i].start_time,
                             processes[i - 1].end_time + jitter[i])
           end_time == start_time + (processes[i].end_time - start_time)
       IN  PushDownstream(
             [processes EXCEPT ![i] = [@ EXCEPT !.start_time = start_time,
                                               !.end_time = end_time]],
             i + 1, jitter)

\* mutate, line 323.
MutateProcessingTime(order, eq) ==
  Max(1, order.quantity \div eq.production_rate)

\* mutate, lines 313-335, for the dict at addr and the process at
\* process_index: the draws the call can make, <<id, jitter>> for
\* random.choice returning the machine id and the random.randint(0, 2) of
\* each later process, <<>> when the process has one machine only.
MutateAtDraws(h, addr, process_index) ==
  LET order_schedule == h[addr]
      process == order_schedule.processes[process_index]
      available_equipment == valid_equipment(process.process_type)
      n == Len(order_schedule.processes)
  IN  IF Len(available_equipment) > 1
      THEN { <<new_eq.id, jitter>> :
             new_eq \in { e \in Range(available_equipment) :
                            e.id # process.equipment_id },
             jitter \in [(process_index + 1)..n -> 0..MaxJitter] }
      ELSE { <<>> }

\* mutate, lines 313-335: the heap the call leaves for draw d.
MutateAtDrawn(h, addr, process_index, d) ==
  LET order_schedule == h[addr]
      order == OrderById(release_orders, order_schedule.order_id)
      process == order_schedule.processes[process_index]
  IN  IF d = <<>> THEN h
      ELSE LET new_eq == EquipmentById(d[1])
               processing_time == MutateProcessingTime(order, new_eq)
               moved == [order_schedule.processes EXCEPT ![process_index] =
                           [@ EXCEPT !.equipment_id = new_eq.id,
                                     !.end_time = process.start_time
                                                    + processing_time]]
           IN  [h EXCEPT ![addr].processes =
                  PushDownstream(moved, process_index + 1, d[2])]

\* mutate, lines 313-335, for the dict at addr and the process at
\* process_index: the heaps the call can leave.
MutateAt(h, addr, process_index) ==
  { MutateAtDrawn(h, addr, process_index, d) :
    d \in MutateAtDraws(h, addr, process_index) }

\* mutate, for the draws it makes: <<>> stands for the calls that change
\* nothing (random.random() > mutation_rate), else <<order_index,
\* process_index, d>> with d the draws of lines 313-335.
MutationDraws(h, individual) ==
  { <<>> } \cup
  UNION { UNION { { <<order_index, process_index, d>> :
                    d \in MutateAtDraws(h, individual[order_index], process_index) } :
                  process_index \in DOMAIN h[individual[order_index]].processes } :
          order_index \in DOMAIN individual }

mutate_drawn(h, individual, m) ==
  IF m = <<>> THEN h
  ELSE MutateAtDrawn(h, individual[m[1]], m[2], m[3])

\* mutate: the heaps the call can leave (the individual itself is returned).
mutate(h, individual) ==
  { mutate_drawn(h, individual, m) : m \in MutationDraws(h, individual) }

\* fitness_scores.sort(key=lambda x: x[0], reverse=True): stable.
RECURSIVE InsertByFitness(_, _)
InsertByFitness(x, s) ==
  IF s = <<>> THEN <<x>>
  ELSE IF ~Greater(Head(s)[1], x[1])
       THEN <<x>> \o s
       ELSE <<Head(s)>> \o InsertByFitness(x, Tail(s))

RECURSIVE SortByFitness(_)
SortByFitness(s) ==
  IF s = <<>> THEN <<>>
  ELSE InsertByFitness(Head(s), SortByFitness(Tail(s)))

\* max(seq, key=lambda x: x[0]): the first element of greatest fitness.
FirstBest(s) ==
  CHOOSE k \in DOMAIN s :
    /\ \A j \in DOMAIN s : ~Greater(s[j][1], s[k][1])
    /\ \A j \in 1..(k - 1) : Greater(s[k][1], s[j][1])

\* random.sample(fitness_scores, min(5, len)); parent1 is the best of the
\* sample, parent2 the best of the rest.
Samples(scores) ==
  LET k == Min(TournamentSize, Len(scores))
  IN  { t \in [1..k -> DOMAIN scores] : \A a, b \in 1..k : a # b => t[a] # t[b] }

\* evolve, lines 350-353, for the sample t.
parents_of(scores, t) ==
  LET tournament == [a \in DOMAIN t |-> scores[t[a]]]
      b1 == FirstBest(tournament)
      rest == SubSeq(tournament, 1, b1 - 1)
                \o SubSeq(tournament, b1 + 1, Len(tournament))
  IN  <<tournament[b1][2], rest[FirstBest(rest)][2]>>

Parents(scores) == { parents_of(scores, t) : t \in Samples(scores) }

\* get_schedule (GeneticAlgorithmScheduler)
ga_get_schedule(h, sol) ==
  [k \in DOMAIN sol |->
     PlanEntry(OrderById(release_orders, h[sol[k]].order_id), h[sol[k]].processes)]

\* main, lines 97-98 and solve, line 369: one create_individual call of
\* initialize_population.  An exception ends the GA (main, line 101).
CreateIndividual ==
  /\ pc = "ga"
  /\ Len(population) < population_size
  /\ \E out \in Individuals(Len(release_orders)) :
       IF out.raised
       THEN /\ pc' = "except"
            /\ UNCHANGED <<heap, population>>
       ELSE /\ heap' = heap \o out.schedules
            /\ population' =
                 Append(population, [k \in DOMAIN out.schedules |-> Len(heap) + k])
            /\ pc' = "ga"
  /\ UNCHANGED <<inputs, orders, releaserVars, idx, can_release, release_orders,
                 exactVars, batch_schedule, fitness_scores, new_population, gen,
                 best_fitness, best_individual, incVars>>

\* Seeded fault: solve without "best_fitness = 0", the best fitness kept
\* from one call to the next.
StartGenerationsKeepsBest ==
  /\ pc = "ga"
  /\ Len(population) = population_size
  /\ best_individual' = population[1]
  /\ gen' = 0
  /\ pc' = IF generations = 0 THEN "ga_done" ELSE "evolve"
  /\ UNCHANGED <<inputs, orders, releaserVars, idx, can_release, release_orders,
                 exactVars, batch_schedule, heap, population, fitness_scores,
                 new_population, best_fitness, incVars>>

\* solve, lines 370-371.
StartGenerations ==
  /\ pc = "ga"
  /\ Len(population) = population_size
  /\ best_fitness' = <<0, 1>>
  /\ best_individual' = population[1]
  /\ gen' = 0
  /\ pc' = IF generations = 0 THEN "ga_done" ELSE "evolve"
  /\ UNCHANGED <<inputs, orders, releaserVars, idx, can_release, release_orders,
                 exactVars, batch_schedule, heap, population, fitness_scores,
                 new_population, incVars>>

\* evolve, lines 342-346: rank the population, keep the best.
EvolveRank ==
  /\ pc = "evolve"
  /\ IF \E k \in DOMAIN population : FitnessRaises(heap, population[k])
     THEN /\ pc' = "except"
          /\ UNCHANGED <<fitness_scores, new_population>>
     ELSE /\ fitness_scores' =
               SortByFitness([k \in DOMAIN population |->
                                <<fitness_function(heap, population[k]), population[k]>>])
          /\ new_population' = <<fitness_scores'[1][2]>>
          /\ pc' = "offspring"
  /\ UNCHANGED <<inputs, orders, releaserVars, idx, can_release, release_orders,
                 exactVars, batch_schedule, heap, population, gen, best_fitness,
                 best_individual, incVars>>

\* evolve, lines 349-363: one round of the while loop.
Offspring ==
  /\ pc = "offspring"
  /\ Len(new_population) < population_size
  /\ \E pr \in Parents(fitness_scores) :
       \E child1 \in crossover(pr[1], pr[2]) :
         \E h1 \in mutate(heap, child1) :
           IF Len(new_population) + 1 < population_size
           THEN \E child2 \in crossover(pr[2], pr[1]) :
                  \E h2 \in mutate(h1, child2) :
                    /\ heap' = h2
                    /\ new_population' = new_population \o <<child1, child2>>
           ELSE /\ heap' = h1
                /\ new_population' = Append(new_population, child1)
  /\ UNCHANGED <<inputs, orders, releaserVars, idx, can_release, release_orders,
                 exactVars, batch_schedule, population, fitness_scores, gen,
                 best_fitness, best_individual, pc, incVars>>

\* evolve, line 365, and solve, lines 375-381: the generation ends.
EndGeneration ==
  /\ pc = "offspring"
  /\ Len(new_population) >= population_size
  /\ population' = new_population
  /\ IF \E k \in DOMAIN new_population : FitnessRaises(heap, new_population[k])
     THEN /\ pc' = "except"
          /\ UNCHANGED <<gen, best_fitness, best_individual>>
     ELSE LET scored == [k \in DOMAIN new_population |->
                           <<fitness_function(heap, new_population[k]),
                             new_population[k]>>]
              current == scored[FirstBest(scored)]
          IN  /\ IF Greater(current[1], best_fitness)
                 THEN /\ best_fitness' = current[1]
                      /\ best_individual' = current[2]
                 ELSE UNCHANGED <<best_fitness, best_individual>>
              /\ gen' = gen + 1
              /\ pc' = IF gen + 1 >= generations THEN "ga_done" ELSE "evolve"
  /\ UNCHANGED <<inputs, orders, releaserVars, idx, can_release, release_orders,
                 exactVars, batch_schedule, heap, fitness_scores, new_population,
                 incVars>>

\* main, line 99: batch_schedule = ga_scheduler.get_schedule(solution)
GAGetSchedule ==
  /\ pc = "ga_done"
  /\ batch_schedule' = ga_get_schedule(heap, best_individual)
  /\ pc' = "apply"
  /\ UNCHANGED <<inputs, orders, releaserVars, idx, can_release, release_orders,
                 exactVars, gaVars, incVars>>

\* main, lines 101-103: an exception of the scheduling step leaves an
\* empty plan.
SchedulingFailed ==
  /\ pc = "except"
  /\ batch_schedule' = <<>>
  /\ pc' = "apply"
  /\ UNCHANGED <<inputs, orders, releaserVars, idx, can_release, release_orders,
                 exactVars, gaVars, incVars>>

(***************************************************************************)
(* dynamic_scheduler.py: IncrementalScheduler, constructed on the cycle's  *)
(* plan (base_schedule is batch_schedule) and the snapshots.               *)
(***************************************************************************)
\* The orders that may arrive after the cycle: (product, quantity, priority).
NewOrderKinds ==
  { <<"P2", 3, 1>>, <<"P1", 21, 2>>, <<"P3", 2, 1>>, <<"P4", 2, 2>> }

\* _update_equipment_load
inc_equipment_load(base_schedule) ==
  [eqid \in {equipment[i].id : i \in DOMAIN equipment} |->
     ScheduleLoad(base_schedule, eqid)]

\* Seeded fault: current_time starts at 0 whatever the base plan holds.
LastEndZero(base_schedule) == 0

\* max([process["end_time"] for order in base for process in ...] or [0])
LastEnd(base_schedule) ==
  LET ends == UNION { { base_schedule[i].processes[j].end_time :
                          j \in DOMAIN base_schedule[i].processes } :
                      i \in DOMAIN base_schedule }
  IN  IF ends = {} THEN 0 ELSE CHOOSE a \in ends : \A b \in ends : a >= b

\* _find_available_time: the first hour of [start_time, start_time + 168)
\* that no process of the base plan on the machine covers, else start_time.
find_available_time(base_schedule, eqid, start_time) ==
  LET Busy(time) ==
        \E i \in DOMAIN base_schedule :
          \E j \in DOMAIN base_schedule[i].processes :
            LET process == base_schedule[i].processes[j]
            IN  /\ process.equipment_id = eqid
                /\ ~ (process.end_time <= time \/ process.start_time >= time + 1)
      free == { time \in start_time..(start_time + LOOKAHEAD - 1) : ~Busy(time) }
  IN  IF free = {} THEN start_time
      ELSE CHOOSE a \in free : \A b \in free : a <= b

\* add_new_order, line 127.
IncProcessingTime(order, eq) ==
  Max(1, order.quantity \div eq.production_rate)

\* min(available_equipment, key=load): the first machine of least load.
LeastLoaded(available_equipment, load) ==
  available_equipment[
    CHOOSE k \in DOMAIN available_equipment :
      /\ \A j \in DOMAIN available_equipment :
           Get(load, available_equipment[k].id, 0)
             <= Get(load, available_equipment[j].id, 0)
      /\ \A j \in 1..(k - 1) :
           Get(load, available_equipment[j].id, 0)
             > Get(load, available_equipment[k].id, 0) ]

\* add_new_order, lines 116-139: the processes of the new order from entry
\* k of the sequence on.
RECURSIVE PlaceProcesses(_, _, _, _, _, _)
PlaceProcesses(base_schedule, order, seq, k, current_time, load) ==
  IF k > Len(seq) THEN <<>>
  ELSE
    LET available_equipment == valid_equipment(seq[k])
    IN  IF available_equipment = <<>>
        THEN PlaceProcesses(base_schedule, order, seq, k + 1, current_time, load)
        ELSE
          LET best_eq == LeastLoaded(available_equipment, load)
              start_time == find_available_time(base_schedule, best_eq.id, current_time)
              processing_time == IncProcessingTime(order, best_eq)
              end_time == start_time + processing_time
          IN  <<Process(seq[k], best_eq.id, start_time, end_time)>>
              \o PlaceProcesses(base_schedule, order, seq, k + 1, end_time,
                                [load EXCEPT ![best_eq.id] = @ + processing_time])

\* Seeded fault: add_new_order without the material check.
add_new_order_unchecked(base_schedule, order) ==
  IF order.product_id \notin DOMAIN boms THEN base_schedule
  ELSE Append(base_schedule,
              PlanEntry(order,
                        PlaceProcesses(base_schedule, order,
                                       boms[order.product_id].process_sequence, 1,
                                       LastEnd(base_schedule),
                                       inc_equipment_load(base_schedule))))

\* add_new_order
add_new_order(base_schedule, order) ==
  IF order.product_id \notin DOMAIN boms THEN base_schedule
  ELSE
    LET bom == boms[order.product_id]
    IN  IF \E m \in DOMAIN bom.components :
             ~check_availability(inventory, m, bom.components[m] * order.quantity)
        THEN base_schedule
        ELSE Append(base_schedule,
                    PlanEntry(order,
                              PlaceProcesses(base_schedule, order,
                                             bom.process_sequence, 1,
                                             LastEnd(base_schedule),
                                             inc_equipment_load(base_schedule))))

\* An order arrives after the cycle:
\* IncrementalScheduler(batch_schedule, ...).add_new_order(new_order)
AddNewOrder ==
  /\ pc = "done"
  /\ \E kind \in NewOrderKinds :
       /\ new_order' = <<MkOrder(Len(order_data) + 1, kind)>>
       /\ merged_schedule' = add_new_order(batch_schedule, new_order'[1])
  /\ pc' = "inserted"
  /\ UNCHANGED <<inputs, orders, releaserVars, idx, can_release, release_orders,
                 exactVars, batch_schedule, gaVars, call, replay>>

Init ==
  /\ equipment \in EquipmentChoices
  /\ order_data \in OrderLists
  /\ orders = order_data
  /\ boms = BomData
  /\ inventory \in InventoryChoices
  /\ rel_inventory = inventory
  /\ rel_load = EmptyLoad
  /\ pc = "sort"
  /\ idx = 0
  /\ can_release = FALSE
  /\ release_orders = <<>>
  /\ variables = {}
  /\ status = ""
  /\ solution = <<>>
  /\ batch_schedule = <<>>
  /\ heap = <<>>
  /\ population = <<>>
  /\ fitness_scores = <<>>
  /\ new_population = <<>>
  /\ gen = 0
  /\ best_fitness = <<0, 1>>
  /\ best_individual = <<>>
  /\ call = <<>>
  /\ new_order = <<>>
  /\ merged_schedule = <<>>
  /\ replay = NoReplay

Next ==
  \/ SortOrders
  \/ CheckRelease
  \/ ReleaseOrder
  \/ DeferOrder
  \/ EndAdmission
  \/ BuildModel
  \/ SolveOptimal
  \/ SolveInfeasible
  \/ SolveNotSolved
  \/ GetSchedule
  \/ ApplyPlan
  \/ CreateIndividual
  \/ StartGenerations
  \/ EvolveRank
  \/ Offspring
  \/ EndGeneration
  \/ GAGetSchedule
  \/ SchedulingFailed
  \/ AddNewOrder

Spec == Init /\ [][Next]_vars

(***************************************************************************)
(* DynamicOrderRelease on its own: a client constructs the releaser and    *)
(* calls its three methods in any order.  main() runs one batch, so there  *)
(* every admission sees a load of 0; here update_equipment_load is called  *)
(* with plans that load a machine up to and past 0.8 * 720 hours.          *)
(***************************************************************************)
\* The plans handed to update_equipment_load: one order with one process of
\* the given length on the given machine ("E3" may be unknown to the
\* releaser).
LoadSchedules ==
  { << [order_id |-> "O1",
        processes |-> << Process(e.process_type, e.id, 0, d) >>] >> :
    e \in {E1, E2, E3}, d \in {0, 576, 577} }
  \cup
  { << [order_id |-> "O1",
        processes |-> << Process("A", "E1", 0, 300), Process("B", "E3", 300, 310) >>],
       [order_id |-> "O2",
        processes |-> << Process("A", e.id, 310, 587) >>] >> :
    e \in {E1, E2} }

\* The orders handed to can_release_order and update_inventory; the caller
\* passes the order's BOM.
ReleaseCalls == { MkOrder(1, kind) : kind \in { k \in OrderKinds : k[1] \in DOMAIN BomData } }

\* DynamicOrderRelease.__init__
InitRelease ==
  /\ equipment \in EquipmentChoices
  /\ boms = BomData
  /\ inventory \in InventoryChoices
  /\ rel_inventory = inventory
  /\ rel_load = EmptyLoad
  /\ order_data = <<>>
  /\ orders = <<>>
  /\ pc = "release"
  /\ idx = 1
  /\ can_release = FALSE
  /\ release_orders = <<>>
  /\ variables = {}
  /\ status = ""
  /\ solution = <<>>
  /\ batch_schedule = <<>>
  /\ heap = <<>>
  /\ population = <<>>
  /\ fitness_scores = <<>>
  /\ new_population = <<>>
  /\ gen = 0
  /\ best_fitness = <<0, 1>>
  /\ best_individual = <<>>
  /\ call = <<>>
  /\ new_order = <<>>
  /\ merged_schedule = <<>>
  /\ replay = NoReplay

\* A call of can_release_order(order, bom).
CallCanRelease ==
  /\ pc = "release"
  /\ \E order \in ReleaseCalls :
       /\ call' = <<"can_release_order", order>>
       /\ can_release' = can_release_order(order, boms[order.product_id],
                                           rel_inventory, rel_load)
  /\ UNCHANGED <<inputs, orders, releaserVars, pc, idx, release_orders,
                 exactVars, batch_schedule, gaVars, new_order, merged_schedule,
                 replay>>

\* A call of update_inventory(order, bom).  The guard keeps the state space
\* finite: no further call once a quantity is negative.
CallUpdateInventory ==
  /\ pc = "release"
  /\ \A m \in DOMAIN rel_inventory : rel_inventory[m] >= 0
  /\ \E order \in ReleaseCalls :
       /\ call' = <<"update_inventory", order>>
       /\ rel_inventory' = update_inventory(order, boms[order.product_id],
                                            rel_inventory)
  /\ UNCHANGED <<inputs, orders, rel_load, pc, idx, can_release, release_orders,
                 exactVars, batch_schedule, gaVars, new_order, merged_schedule,
                 replay>>

\* A call of update_equipment_load(schedule).
CallUpdateEquipmentLoad ==
  /\ pc = "release"
  /\ \E schedule \in LoadSchedules :
       /\ call' = <<"update_equipment_load", schedule>>
       /\ rel_load' = update_equipment_load(schedule)
  /\ UNCHANGED <<inputs, orders, rel_inventory, pc, idx, can_release,
                 release_orders, exactVars, batch_schedule, gaVars, new_order,
                 merged_schedule, replay>>

NextRelease ==
  \/ CallCanRelease
  \/ CallUpdateInventory
  \/ CallUpdateEquipmentLoad

SpecRelease == InitRelease /\ [][NextRelease]_vars

(***************************************************************************)
(* SchedulingModel on its own: a client constructs it with any orders that *)
(* have a BOM and any inventory snapshot, builds the model, solves and     *)
(* reads the plan.  main() only passes orders that the admission checked   *)
(* against the projected copy, so there no order lacks a material.         *)
(***************************************************************************)
ModelOrderLists ==
  { os \in OrderLists : \A i \in DOMAIN os : os[i].product_id \in DOMAIN BomData }

\* SchedulingModel.__init__
InitModel ==
  /\ equipment \in EquipmentChoices
  /\ boms = BomData
  /\ inventory \in InventoryChoices
  /\ rel_inventory = inventory
  /\ rel_load = EmptyLoad
  /\ order_data \in ModelOrderLists
  /\ orders = order_data
  /\ release_orders = order_data
  /\ pc = "build"
  /\ idx = 1
  /\ can_release = FALSE
  /\ variables = {}
  /\ status = ""
  /\ solution = <<>>
  /\ batch_schedule = <<>>
  /\ heap = <<>>
  /\ population = <<>>
  /\ fitness_scores = <<>>
  /\ new_population = <<>>
  /\ gen = 0
  /\ best_fitness = <<0, 1>>
  /\ best_individual = <<>>
  /\ call = <<>>
  /\ new_order = <<>>
  /\ merged_schedule = <<>>
  /\ replay = NoReplay

NextModel ==
  \/ BuildModel
  \/ SolveOptimal
  \/ SolveInfeasible
  \/ SolveNotSolved
  \/ GetSchedule

SpecModel == InitModel /\ [][NextModel]_vars

(***************************************************************************)
(* GeneticAlgorithmScheduler on its own, run twice by a client on the same *)
(* orders, machines, BOMs and inventory: the first run draws from the      *)
(* random module and replay.tape keeps the draws; the second run is given  *)
(* the same draws in the same order (the generator reseeded with the same  *)
(* seed).  The dicts of the first run stay on the heap.                    *)
(***************************************************************************)
\* The draw d is the one the generator gives next.
Drawn(d) ==
  \/ replay.pos = 0
  \/ /\ replay.pos \in DOMAIN replay.tape
     /\ replay.tape[replay.pos] = d

\* The generator has given d.
Advance(d) ==
  IF replay.pos = 0
  THEN [replay EXCEPT !.tape = Append(@, d)]
  ELSE [replay EXCEPT !.pos = @ + 1]

\* The orders of the two runs: one order of two scheduled processes, the
\* same with a second order (so that crossover has a point to cut at), and
\* an order no machine can finish within the horizon.
ReplayOrderLists ==
  { <<MkOrder(1, <<"P3", 2, 1>>)>>,
    <<MkOrder(1, <<"P3", 2, 1>>), MkOrder(2, <<"P1", 2, 1>>)>>,
    <<MkOrder(1, <<"P1", 21, 2>>)>> }

\* GeneticAlgorithmScheduler.__init__
InitReplay ==
  /\ equipment = <<E1, E2>>
  /\ boms = BomData
  /\ inventory = ("M1" :> 100) @@ ("M2" :> 3)
  /\ rel_inventory = inventory
  /\ rel_load = EmptyLoad
  /\ order_data \in ReplayOrderLists
  /\ orders = order_data
  /\ release_orders = order_data
  /\ pc = "ga"
  /\ idx = 1
  /\ can_release = FALSE
  /\ variables = {}
  /\ status = ""
  /\ solution = <<>>
  /\ batch_schedule = <<>>
  /\ heap = <<>>
  /\ population = <<>>
  /\ fitness_scores = <<>>
  /\ new_population = <<>>
  /\ gen = 0
  /\ best_fitness = <<0, 1>>
  /\ best_individual = <<>>
  /\ call = <<>>
  /\ new_order = <<>>
  /\ merged_schedule = <<>>
  /\ replay = NoReplay

\* solve, line 369: one create_individual call of initialize_population, on
\* the draws the generator gives.
CreateIndividualDrawn ==
  /\ pc = "ga"
  /\ Len(population) < population_size
  /\ \E out \in Individuals(Len(release_orders)) :
       LET d == [call |-> "create_individual", draws |-> out.draws]
       IN  /\ Drawn(d)
           /\ replay' = Advance(d)
           /\ IF out.raised
              THEN /\ pc' = "except"
                   /\ UNCHANGED <<heap, population>>
              ELSE /\ heap' = heap \o out.schedules
                   /\ population' =
                        Append(population,
                               [k \in DOMAIN out.schedules |-> Len(heap) + k])
                   /\ pc' = "ga"
  /\ UNCHANGED <<inputs, orders, releaserVars, idx, can_release, release_orders,
                 exactVars, batch_schedule, fitness_scores, new_population, gen,
                 best_fitness, best_individual, call, new_order, merged_schedule>>

\* evolve, lines 349-363: one round of the while loop, on the draws the
\* generator gives.
OffspringDrawn ==
  /\ pc = "offspring"
  /\ Len(new_population) < population_size
  /\ \E t \in Samples(fitness_scores) :
       LET pr == parents_of(fitness_scores, t)
       IN  \E cp1 \in CrossoverDraws(pr[1]) :
             LET child1 == crossover_at(pr[1], pr[2], cp1)
             IN  \E m1 \in MutationDraws(heap, child1) :
                   LET h1 == mutate_drawn(heap, child1, m1)
                   IN  IF Len(new_population) + 1 < population_size
                       THEN \E cp2 \in CrossoverDraws(pr[2]) :
                              LET child2 == crossover_at(pr[2], pr[1], cp2)
                              IN  \E m2 \in MutationDraws(h1, child2) :
                                    LET d == [call |-> "evolve",
                                              draws |-> <<t, cp1, m1, cp2, m2>>]
                                    IN  /\ Drawn(d)
                                        /\ replay' = Advance(d)
                                        /\ heap' = mutate_drawn(h1, child2, m2)
                                        /\ new_population' =
                                             new_population \o <<child1, child2>>
                       ELSE LET d == [call |-> "evolve",
                                      draws |-> <<t, cp1, m1>>]
                            IN  /\ Drawn(d)
                                /\ replay' = Advance(d)
                                /\ heap' = h1
                                /\ new_population' = Append(new_population, child1)
  /\ UNCHANGED <<inputs, orders, releaserVars, idx, can_release, release_orders,
                 exactVars, batch_schedule, population, fitness_scores, gen,
                 best_fitness, best_individual, pc, call, new_order,
                 merged_schedule>>

\* The client keeps the plan of the first run and calls solve again: solve,
\* line 369, starts from a fresh population.
SolveAgain ==
  /\ pc = "apply"
  /\ replay.pos = 0
  /\ replay' = [replay EXCEPT !.pos = 1, !.plan = batch_schedule]
  /\ population' = <<>>
  /\ pc' = "ga"
  /\ UNCHANGED <<inputs, orders, releaserVars, idx, can_release, release_orders,
                 exactVars, batch_schedule, heap, fitness_scores, new_population,
                 gen, best_fitness, best_individual, call, new_order,
                 merged_schedule>>

NextReplay ==
  \/ CreateIndividualDrawn
  \/ StartGenerations
  \/ EvolveRank
  \/ OffspringDrawn
  \/ EndGeneration
  \/ GAGetSchedule
  \/ SchedulingFailed
  \/ SolveAgain

SpecReplay == InitReplay /\ [][NextReplay]_vars

(***************************************************************************)
(* The laws of the specification, stated over the model.                   *)
(***************************************************************************)
\* The cycle is past the scheduler: batch_schedule is the cycle's plan.
Planned == pc \in {"apply", "done", "inserted"}

\* The cycle's plan comes from the exact scheduler.
ExactPlan == Planned /\ status = "Optimal"

\* The (entry, process) positions of a plan.
Positions(plan) ==
  UNION { { <<k, j>> : j \in DOMAIN plan[k].processes } : k \in DOMAIN plan }

ProcessAt(plan, pos) == plan[pos[1]].processes[pos[2]]

\* C1 (capacity law, exact scheduler): in every plan the exact scheduler
\* returns, two assignments on the same machine never occupy overlapping
\* half-open intervals [start_time, end_time), whatever the processing time.
C1_CapacityLaw ==
  ExactPlan =>
    \A a, b \in Positions(batch_schedule) :
      LET pa == ProcessAt(batch_schedule, a)
          pb == ProcessAt(batch_schedule, b)
      IN  (a # b /\ pa.equipment_id = pb.equipment_id) =>
            (pa.end_time <= pb.start_time \/ pb.end_time <= pa.start_time)

HasMachine(ptype) == \E i \in DOMAIN equipment : equipment[i].process_type = ptype

SequenceLawFor(product_id, processes) ==
  /\ [j \in DOMAIN processes |-> processes[j].process_type]
       = SelectSeq(boms[product_id].process_sequence, HasMachine)
  /\ \A j \in 1..(Len(processes) - 1) :
       processes[j].end_time <= processes[j + 1].start_time

\* C2 (sequence law): in every plan (the exact scheduler's, every order
\* schedule of every individual of the genetic algorithm after any
\* crossover and mutation, the genetic algorithm's plan, and the plan the
\* inserter returns) the assignments of an order are listed in the order of
\* its BOM process sequence, and each starts no earlier than the one before
\* it ends.
C2_SequenceLaw ==
  /\ \A k \in DOMAIN batch_schedule :
       SequenceLawFor(batch_schedule[k].product_id, batch_schedule[k].processes)
  /\ \A a \in DOMAIN heap :
       SequenceLawFor(OrderById(release_orders, heap[a].order_id).product_id,
                      heap[a].processes)
  /\ \A k \in DOMAIN merged_schedule :
       SequenceLawFor(merged_schedule[k].product_id, merged_schedule[k].processes)

\* C2's case: the genetic algorithm's plan holds a process that a mutation
\* pushed behind its predecessor (its start moved up to or past its own
\* end), and the inserter has appended an order with two processes.
C2_Witness ==
  /\ pc = "inserted"
  /\ status # "Optimal"
  /\ \E pos \in Positions(batch_schedule) :
       /\ pos[2] > 1
       /\ ProcessAt(batch_schedule, pos).end_time
            <= ProcessAt(batch_schedule, pos).start_time
  /\ Len(merged_schedule) = Len(batch_schedule) + 1
  /\ Len(merged_schedule[Len(merged_schedule)].processes) >= 2

CeilDiv(a, b) == (a + b - 1) \div b

DurationLawFor(plan) ==
  \A pos \in Positions(plan) :
    LET process == ProcessAt(plan, pos)
    IN  process.end_time - process.start_time
          = Max(1, CeilDiv(plan[pos[1]].quantity,
                           EquipmentById(process.equipment_id).production_rate))

\* C3 (duration law): every assignment of every plan, of whichever
\* scheduler, lasts max(1, ceil(quantity / production_rate)) hours.
C3_DurationLaw ==
  /\ DurationLawFor(batch_schedule)
  /\ DurationLawFor(merged_schedule)

\* One family of decision variables per position of the order's sequence.
PositionVariables(order) ==
  LET seq == boms[order.product_id].process_sequence
  IN  UNION { { <<k, equipment[i].id, time>> :
                  i \in { j \in DOMAIN equipment :
                            equipment[j].process_type = seq[k] },
                  time \in 0..(TIME_HORIZON - 1) } :
              k \in DOMAIN seq }

\* C4 (assignment completeness): the exact scheduler decides one assignment
\* for every position of an order's BOM process sequence, a repeated process
\* type included (each occurrence has its own decision variables and gets
\* its own assignment): the model it builds holds a family of variables per
\* position, and every order of its plan has exactly one assignment per
\* position, of the position's process type.
C4_AssignmentCompleteness ==
  /\ pc = "solve" =>
       \A i \in DOMAIN release_orders :
         Cardinality({ v \in variables : v[1] = release_orders[i].id })
           = Cardinality(PositionVariables(release_orders[i]))
  /\ ExactPlan =>
       \A k \in DOMAIN batch_schedule :
         LET seq == boms[batch_schedule[k].product_id].process_sequence
             processes == batch_schedule[k].processes
         IN  /\ Len(processes) = Len(seq)
             /\ \A j \in DOMAIN seq : processes[j].process_type = seq[j]

\* The order's material need is covered by the stock inv.
MaterialsCovered(order, inv) ==
  \A m \in DOMAIN boms[order.product_id].components :
    Get(inv, m, 0) >= boms[order.product_id].components[m] * order.quantity

\* No machine qualified for a process of the order is loaded past
\* 0.8 * 720 hours.
LoadAcceptable(order, load) ==
  \A i \in DOMAIN equipment :
    equipment[i].process_type \in Range(boms[order.product_id].process_sequence)
      => Get(load, equipment[i].id, 0) * 10 <= 8 * 720

\* C5 (release decision): can_release_order(order, bom) returns true exactly
\* when every material of the BOM is in the projected inventory in at least
\* quantity * per-unit amount (an absent material counts as 0) and every
\* machine qualified for a process type of the BOM has load / 720 <= 0.8;
\* the call changes neither the projected inventory nor the loads.
C5_ReleaseDecision ==
  [][ (call' # <<>> /\ call'[1] = "can_release_order") =>
        /\ can_release' = ( /\ MaterialsCovered(call'[2], rel_inventory)
                            /\ LoadAcceptable(call'[2], rel_load) )
        /\ UNCHANGED <<rel_inventory, rel_load, inputs>> ]_vars

\* C5's case: the last call refused an order whose materials are covered,
\* for the load of a qualified machine alone.
C5_Witness ==
  /\ call # <<>>
  /\ call[1] = "can_release_order"
  /\ ~can_release
  /\ MaterialsCovered(call[2], rel_inventory)
  /\ \E i \in DOMAIN equipment : rel_load[equipment[i].id] = 577

Materials == UNION { DOMAIN BomData[p].components : p \in DOMAIN BomData }

\* C6 (admission law): when the admission releases an order, the projected
\* inventory of every material afterwards is its value before minus
\* quantity * per-unit amount of the order's BOM (nothing for a material the
\* BOM does not use); an order that is not released changes no projected
\* quantity.
C6_AdmissionLaw ==
  [][ (pc = "checked" /\ pc' = "admit") =>
        IF release_orders' # release_orders
        THEN /\ release_orders' = Append(release_orders, orders[idx])
             /\ DOMAIN rel_inventory' = DOMAIN rel_inventory
             /\ \A m \in DOMAIN rel_inventory :
                  rel_inventory'[m]
                    = rel_inventory[m]
                        - orders[idx].quantity
                            * Get(boms[orders[idx].product_id].components, m, 0)
             /\ rel_load' = rel_load
        ELSE UNCHANGED <<rel_inventory, rel_load>> ]_vars

\* C6's case: the admission is over, it released an order that used one
\* material and left another alone, and it refused another order.
C6_Witness ==
  /\ pc = "done"
  /\ release_orders # <<>>
  /\ Len(release_orders) < Len(orders)
  /\ \E m \in DOMAIN inventory : rel_inventory[m] < inventory[m]
  /\ \E m \in DOMAIN inventory : rel_inventory[m] = inventory[m]

RECURSIVE ReleasedNeed(_, _)
ReleasedNeed(os, m) ==
  IF os = <<>> THEN 0
  ELSE Get(boms[Head(os).product_id].components, m, 0) * Head(os).quantity
       + ReleasedNeed(Tail(os), m)

\* C7 (projected inventory): under the admission loop of the planning cycle
\* no projected quantity is ever negative, and the released orders together
\* need no more of any material than the snapshot held.
C7_ProjectedInventory ==
  /\ \A m \in DOMAIN rel_inventory : rel_inventory[m] >= 0
  /\ \A m \in Materials : ReleasedNeed(release_orders, m) <= Get(inventory, m, 0)

\* C7's case: the admission refuses an order that the snapshot would cover,
\* because the orders released before it have used the material.
C7_Witness ==
  /\ pc = "checked"
  /\ ~can_release
  /\ release_orders # <<>>
  /\ orders[idx].product_id \in DOMAIN boms
  /\ MaterialsCovered(orders[idx], inventory)
  /\ ~MaterialsCovered(orders[idx], rel_inventory)

InputIndex(o) == CHOOSE i \in DOMAIN order_data : order_data[i].id = o.id

InPriorityOrder(os) ==
  \A i, j \in DOMAIN os :
    i < j => \/ os[i].priority < os[j].priority
             \/ /\ os[i].priority = os[j].priority
                /\ InputIndex(os[i]) < InputIndex(os[j])

\* C8 (priority law): the admission takes the orders in ascending priority
\* value, orders of equal priority in input order: the list it walks is the
\* input sorted that way, the orders decided so far are a prefix of it, and
\* the released orders stand in that order.
C8_PriorityLaw ==
  pc # "sort" =>
    /\ Len(orders) = Len(order_data)
    /\ Range(orders) = Range(order_data)
    /\ InPriorityOrder(orders)
    /\ InPriorityOrder(release_orders)
    /\ Range(release_orders) \subseteq { orders[i] : i \in 1..(idx - 1) }

\* C8's case: both orders are released, and the input listed the order of
\* larger priority value first.
C8_Witness ==
  /\ pc = "done"
  /\ Len(release_orders) = 2
  /\ order_data[1].priority > order_data[2].priority
  /\ release_orders[1].id = "O2"

\* C9 (exact/heuristic handoff): the cycle's plan is the exact scheduler's
\* plan when the solver reports Optimal; otherwise it is the genetic
\* algorithm's, which always has one entry per released order.
C9_Handoff ==
  Planned =>
    IF status = "Optimal"
    THEN batch_schedule = get_schedule(solution)
    ELSE /\ Len(batch_schedule) = Len(release_orders)
         /\ \A k \in DOMAIN release_orders :
              batch_schedule[k].order_id = release_orders[k].id

\* C10 (material pin): when the snapshot lacks a material of an order, the
\* exact scheduler drops that order from its plan and still schedules the
\* others: whenever the orders that have their materials can be scheduled
\* by themselves, the solver reports Optimal and the plan holds exactly
\* them.
C10_MaterialPin ==
  LET supplied == SelectSeq(release_orders, MaterialsAvailable)
  IN  ( /\ pc \in {"schedule", "ga", "apply"}
        /\ status # "Not Solved"
        /\ supplied # release_orders
        /\ FeasibleSolutions(supplied, BuildVariables(supplied)) # {} )
      => /\ status = "Optimal"
         /\ pc = "apply" =>
              { batch_schedule[k].order_id : k \in DOMAIN batch_schedule }
                = { supplied[i].id : i \in DOMAIN supplied }

RECURSIVE SumDurations(_, _)
SumDurations(plan, S) ==
  IF S = {} THEN 0
  ELSE LET pos == CHOOSE q \in S : TRUE
       IN  ProcessAt(plan, pos).end_time - ProcessAt(plan, pos).start_time
           + SumDurations(plan, S \ {pos})

\* Sum of end_time - start_time over the plan's assignments on machine eqid.
MachineLoad(plan, eqid) ==
  SumDurations(plan, { pos \in Positions(plan) :
                         ProcessAt(plan, pos).equipment_id = eqid })

\* C11 (apply_plan): update_equipment_load(plan) sets the load of every
\* machine the releaser knows to the sum of end_time - start_time over the
\* plan's assignments on it, whatever the load was before, and touches
\* nothing else; a second call with the same plan leaves the loads as the
\* first call set them.
C11_ApplyPlan ==
  [][ (call' # <<>> /\ call'[1] = "update_equipment_load") =>
        /\ DOMAIN rel_load' = { equipment[i].id : i \in DOMAIN equipment }
        /\ \A eqid \in DOMAIN rel_load' :
             rel_load'[eqid] = MachineLoad(call'[2], eqid)
        /\ call = call' => rel_load' = rel_load
        /\ UNCHANGED <<rel_inventory, inputs>> ]_vars

\* C11's case: the last call applied a plan of two orders with two
\* assignments on E1 (300 + 277 hours) and one on a machine the releaser
\* does not know, after the inventory projection had been changed.
C11_Witness ==
  /\ call # <<>>
  /\ call[1] = "update_equipment_load"
  /\ Len(call[2]) = 2
  /\ rel_load = ("E1" :> 577)
  /\ rel_inventory # inventory

\* The inserter accepted the order: the returned plan is one entry longer.
Accepted == pc = "inserted" /\ Len(merged_schedule) = Len(batch_schedule) + 1

NewEntry == merged_schedule[Len(merged_schedule)]

Disjoint(pa, pb) == pa.end_time <= pb.start_time \/ pb.end_time <= pa.start_time

\* C12 (insertion placement): in the plan add_new_order returns for an
\* accepted order, every assignment of the new order starts at or after the
\* latest end_time of the assignments that were there before (0 if none),
\* and no assignment of the new order overlaps, on the same machine, an
\* earlier assignment or another assignment of the new order.
C12_InsertionPlacement ==
  Accepted =>
    \A j \in DOMAIN NewEntry.processes :
      LET process == NewEntry.processes[j]
      IN  /\ \A pos \in Positions(batch_schedule) :
               /\ process.start_time >= ProcessAt(batch_schedule, pos).end_time
               /\ ProcessAt(batch_schedule, pos).equipment_id = process.equipment_id
                    => Disjoint(process, ProcessAt(batch_schedule, pos))
          /\ process.start_time >= 0
          /\ \A k \in DOMAIN NewEntry.processes :
               (k # j /\ NewEntry.processes[k].equipment_id = process.equipment_id)
                 => Disjoint(process, NewEntry.processes[k])

\* C12's case: the accepted order got two assignments on one machine, and
\* the plan before held an assignment on that machine that ends after
\* hour 0.
C12_Witness ==
  /\ Accepted
  /\ \E j, k \in DOMAIN NewEntry.processes :
       /\ j < k
       /\ NewEntry.processes[j].equipment_id = NewEntry.processes[k].equipment_id
       /\ \E pos \in Positions(batch_schedule) :
            /\ ProcessAt(batch_schedule, pos).equipment_id
                 = NewEntry.processes[j].equipment_id
            /\ ProcessAt(batch_schedule, pos).end_time > 0

\* The order has a BOM and the snapshot covers its materials.
Acceptable(order) ==
  /\ order.product_id \in DOMAIN boms
  /\ MaterialsCovered(order, inventory)

\* C13 (insertion preserves the plan): add_new_order changes no entry of
\* the plan it was given; for an accepted order it returns those entries in
\* their order followed by exactly one entry, the new order's; for an order
\* without BOM or with a material the snapshot does not cover it returns
\* the plan as it was; the inventory stays as it was in either case.
C13_InsertionPreserves ==
  [][ pc' = "inserted" =>
        /\ UNCHANGED <<batch_schedule, inputs, rel_inventory>>
        /\ IF Acceptable(new_order'[1])
           THEN /\ Len(merged_schedule') = Len(batch_schedule) + 1
                /\ SubSeq(merged_schedule', 1, Len(batch_schedule)) = batch_schedule
                /\ merged_schedule'[Len(merged_schedule')].order_id = new_order'[1].id
           ELSE merged_schedule' = batch_schedule ]_vars

\* C13's case: the plan held entries and the order was turned down for a
\* material alone.
C13_Witness ==
  /\ pc = "inserted"
  /\ batch_schedule # <<>>
  /\ merged_schedule = batch_schedule
  /\ new_order[1].product_id \in DOMAIN boms
  /\ ~MaterialsCovered(new_order[1], inventory)

\* C14 (horizon bound): every assignment of the cycle's plan, from the
\* exact scheduler or from the genetic algorithm, starts within the
\* scheduler's planning horizon: 0 <= start_time < TIME_HORIZON.
C14_HorizonBound ==
  Planned =>
    \A pos \in Positions(batch_schedule) :
      /\ ProcessAt(batch_schedule, pos).start_time >= 0
      /\ ProcessAt(batch_schedule, pos).start_time
           < (IF status = "Optimal" THEN TIME_HORIZON ELSE GA_TIME_HORIZON)

\* C15 (snapshot immutability): no step of the planning cycle (admission,
\* exact solve, genetic algorithm, insertion) changes the inventory
\* snapshot, the machines, the BOMs or the orders the adapter delivered;
\* the list the cycle walks holds these orders, each as delivered, and so
\* does the released list.  What changes on the admission side is the
\* projected inventory and the projected load.
C15_SnapshotImmutability ==
  [][ /\ UNCHANGED <<equipment, order_data, boms, inventory>>
      /\ Len(orders') = Len(order_data)
      /\ Range(orders') = Range(order_data)
      /\ Range(release_orders') \subseteq Range(order_data) ]_vars

\* C15's case: the whole cycle has run with the genetic algorithm as the
\* scheduler and an accepted insertion at the end; the admission has changed
\* its projected inventory and the cycle has reordered the list it walks.
C15_Witness ==
  /\ Accepted
  /\ status \in {"Infeasible", "Not Solved"}
  /\ batch_schedule # <<>>
  /\ rel_inventory # inventory
  /\ orders # order_data


(***************************************************************************)
(* C16.                                                                    *)
(***************************************************************************)
\* The draws d fit the round of evolve's while loop that comes next.
OffspringFits(d) ==
  /\ d[1] \in Samples(fitness_scores)
  /\ LET pr == parents_of(fitness_scores, d[1])
         child1 == crossover_at(pr[1], pr[2], d[2])
         h1 == mutate_drawn(heap, child1, d[3])
     IN  /\ d[2] \in CrossoverDraws(pr[1])
         /\ d[3] \in MutationDraws(heap, child1)
         /\ IF Len(new_population) + 1 < population_size
            THEN /\ Len(d) = 5
                 /\ d[4] \in CrossoverDraws(pr[2])
                 /\ d[5] \in MutationDraws(h1, crossover_at(pr[2], pr[1], d[4]))
            ELSE Len(d) = 3

\* The call of the second run that draws next asks for what the first run
\* was given at this point.
DrawFits ==
  IF pc = "ga" /\ Len(population) < population_size
  THEN /\ replay.pos \in DOMAIN replay.tape
       /\ replay.tape[replay.pos].call = "create_individual"
       /\ \E out \in Individuals(Len(release_orders)) :
            out.draws = replay.tape[replay.pos].draws
  ELSE IF pc = "offspring" /\ Len(new_population) < population_size
  THEN /\ replay.pos \in DOMAIN replay.tape
       /\ replay.tape[replay.pos].call = "evolve"
       /\ OffspringFits(replay.tape[replay.pos].draws)
  ELSE TRUE

Reassigned(a, j) ==
  heap'[a].processes[j].equipment_id # heap[a].processes[j].equipment_id

\* Process i of the dict at address a comes after a process the step
\* reassigned and was not reassigned itself.
Downstream(a, i) ==
  /\ ~Reassigned(a, i)
  /\ \E j \in 1..(i - 1) : Reassigned(a, j)

\* C17 (mutation keeps downstream durations): when a step of the genetic
\* algorithm gives a process another machine, every later process of the
\* same order starts at or after the end of its predecessor and lasts as
\* long as before the step, so that it does not end before it starts.
C17_MutationKeepsDurations ==
  [][ \A a \in DOMAIN heap : \A i \in DOMAIN heap[a].processes :
        Downstream(a, i) =>
          LET before == heap[a].processes[i]
              after == heap'[a].processes[i]
          IN  /\ after.start_time >= heap'[a].processes[i - 1].end_time
              /\ after.end_time - after.start_time
                   = before.end_time - before.start_time
              /\ after.end_time >= after.start_time ]_vars


(***************************************************************************)
(* C18.                                                                    *)
(***************************************************************************)
\* The order schedules of an individual, as heap h holds them.
Content(h, individual) == [k \in DOMAIN individual |-> h[individual[k]]]

\* C18 (elitism and best-ever tracking): while evolve breeds the other
\* individuals of a generation, the best individual it kept (the first of
\* new_population) stays as it was; and when solve returns, the fitness of
\* the individual it returns is the highest fitness it recorded.
C18_Elitism ==
  [][ /\ (pc = "offspring" /\ pc' = "offspring") =>
           Content(heap', new_population[1]) = Content(heap, new_population[1])
      /\ (pc' = "ga_done" /\ generations > 0) =>
           fitness_function(heap', best_individual') = best_fitness' ]_vars

====
